---- MODULE Spec2Model ----
(***************************************************************************)
(* A model of ebook-ident: the request cache of db_cache.py, the text      *)
(* normalisation, format classification and fuzzy comparison of           *)
(* compare.py, and the batch run of identify.py.                           *)
(*                                                                         *)
(* A Python str is modelled as a sequence of one-character strings, so    *)
(* that formatting, regular-expression matching and SQL quoting are       *)
(* computed character by character.                                        *)
(***************************************************************************)
EXTENDS Integers, Sequences, FiniteSets, TLC

VARIABLES
    store,      \* db_cache: rows of table 'request', in rowid order
    now,        \* db_cache: the wall clock read by datetime.now()
    calls,      \* db_cache: the last two make_request_using_cache calls, oldest first
    keyArgs,    \* create_unique_request_str: the two argument lists under comparison
    keyOut,     \* create_unique_request_str: the two returned keys, or <<>> before the calls
    normTrace,  \* normalize: the input, then the result of each successive call
    univIn,     \* normalize_univ: the argument
    univOut,    \* normalize_univ: <<result>>, or <<>> before the call
    fmtIn,      \* classify_by_format: the argument
    fmtOut,     \* classify_by_format: <<result>>, or <<>> before the call
    cmp,        \* create_compare_func: <<the closure it returned>>, or <<>> before the call
    cmpArgs,    \* create_compare_func: its arguments, or <<>> before the call
    cmpRight,   \* compare_func: the candidate of the latest call, or <<>> before any
    cmpOut,     \* compare_func: <<the outcome of the latest call>>, or <<>> before any
    batch       \* identify_books: the locals of the run and its position, or <<>> when not run

cacheVars == <<store, now, calls>>
keyVars == <<keyArgs, keyOut>>
normVars == <<normTrace>>
univVars == <<univIn, univOut>>
fmtVars == <<fmtIn, fmtOut>>
cmpVars == <<cmp, cmpArgs, cmpRight, cmpOut>>
batchVars == <<batch>>
vars == <<store, now, calls, keyArgs, keyOut, normTrace, univIn, univOut, fmtIn, fmtOut,
          cmp, cmpArgs, cmpRight, cmpOut, batch>>

(***************************************************************************)
(* Strings                                                                 *)
(***************************************************************************)

\* The printable ASCII characters in code-point order, from 32 (space) to 126
\* (the double quote, the backslash and the backtick are left out: no input of the model has them).
AsciiPrintable ==
    << " ", "!", "#", "$", "%", "&", "'", "(", ")", "*", "+", ",", "-", ".", "/",
       "0", "1", "2", "3", "4", "5", "6", "7", "8", "9", ":", ";", "<", "=", ">", "?",
       "@", "A", "B", "C", "D", "E", "F", "G", "H", "I", "J", "K", "L", "M", "N", "O",
       "P", "Q", "R", "S", "T", "U", "V", "W", "X", "Y", "Z", "[", "]", "^", "_",
       "a", "b", "c", "d", "e", "f", "g", "h", "i", "j", "k", "l", "m", "n", "o",
       "p", "q", "r", "s", "t", "u", "v", "w", "x", "y", "z", "{", "|", "}", "~" >>

\* The rank of character c in code-point order.
Ord(c) == CHOOSE i \in 1..Len(AsciiPrintable) : AsciiPrintable[i] = c

\* Python's str < str: lexicographic by code point, a proper prefix first.
RECURSIVE StrLess(_, _)
StrLess(s, t) ==
    IF t = <<>> THEN FALSE
    ELSE IF s = <<>> THEN TRUE
    ELSE IF s[1] = t[1] THEN StrLess(Tail(s), Tail(t))
    ELSE Ord(s[1]) < Ord(t[1])

\* sep.join(parts)
RECURSIVE Join(_, _)
Join(sep, parts) ==
    IF parts = <<>> THEN <<>>
    ELSE IF Len(parts) = 1 THEN parts[1]
    ELSE parts[1] \o sep \o Join(sep, Tail(parts))

\* The elements of a sequence.
Range(s) == {s[i] : i \in 1..Len(s)}

\* Every sequence over S of length at most n.
SeqsUpTo(S, n) == UNION {[1..k -> S] : k \in 0..n}

(***************************************************************************)
(* compare.py: regular expressions                                         *)
(***************************************************************************)

UpperCase ==
    << "A", "B", "C", "D", "E", "F", "G", "H", "I", "J", "K", "L", "M",
       "N", "O", "P", "Q", "R", "S", "T", "U", "V", "W", "X", "Y", "Z" >>
LowerCase ==
    << "a", "b", "c", "d", "e", "f", "g", "h", "i", "j", "k", "l", "m",
       "n", "o", "p", "q", "r", "s", "t", "u", "v", "w", "x", "y", "z" >>
Digits == {"0", "1", "2", "3", "4", "5", "6", "7", "8", "9"}

\* \w of the re module, on ASCII.
IsWordChar(c) == c \in Range(UpperCase) \cup Range(LowerCase) \cup Digits \cup {"_"}

\* A mutant of WordBoundary: \b is ignored.
WordBoundaryMutant(s, i) == TRUE

\* \b at position i of s, between s[i-1] and s[i]: exactly one side is a word character.
WordBoundary(s, i) ==
    (i > 1 /\ IsWordChar(s[i - 1])) # (i <= Len(s) /\ IsWordChar(s[i]))

\* A compiled pattern is an optional leading \b, a sequence of elements (each
\* a character class, possibly optional) and an optional trailing \b.
Lit(str) == [i \in 1..Len(str) |-> [chars |-> {str[i]}, optional |-> FALSE]]
Opt(class) == <<[chars |-> class, optional |-> TRUE]>>
Word(elems) == [wb_start |-> TRUE, elems |-> elems, wb_end |-> TRUE]
Anywhere(elems) == [wb_start |-> FALSE, elems |-> elems, wb_end |-> FALSE]

\* The positions at which a match of elems that starts at position i of s can end.
RECURSIVE MatchEnds(_, _, _)
MatchEnds(elems, s, i) ==
    IF elems = <<>> THEN {i}
    ELSE LET e == Head(elems)
             taken == IF i <= Len(s) /\ s[i] \in e.chars
                      THEN MatchEnds(Tail(elems), s, i + 1) ELSE {}
             skipped == IF e.optional THEN MatchEnds(Tail(elems), s, i) ELSE {}
         IN  taken \cup skipped

MatchAt(pattern, s, i) ==
    IF pattern.wb_start /\ ~WordBoundary(s, i) THEN {}
    ELSE {e \in MatchEnds(pattern.elems, s, i) : pattern.wb_end => WordBoundary(s, e)}

\* pattern.search(s) is not None
Search(pattern, s) == \E i \in 1..(Len(s) + 1) : MatchAt(pattern, s, i) # {}

\* pattern.sub(repl, s): the non-overlapping matches, leftmost first, replaced.
\* The patterns substituted have no optional element: a match has one end.
RECURSIVE SubFrom(_, _, _, _)
SubFrom(pattern, repl, s, i) ==
    IF i > Len(s) THEN <<>>
    ELSE LET ends == MatchAt(pattern, s, i)
         IN  IF ends # {}
             THEN repl \o SubFrom(pattern, repl, s, CHOOSE e \in ends : \A f \in ends : f <= e)
             ELSE <<s[i]>> \o SubFrom(pattern, repl, s, i + 1)

Sub(pattern, repl, s) == SubFrom(pattern, repl, s, 1)

(***************************************************************************)
(* compare.py: normalize and normalize_univ                                *)
(***************************************************************************)

PUNC_PATTERN == Anywhere(<<[chars |-> {",", ".", "#", ":"}, optional |-> FALSE]>>)
AMP_PATTERN == Anywhere(Lit(<<"&">>))

UP_PATTERN == Word(Lit(<<"u", "p">>))
UOF_PATTERN == Word(Lit(<<"u", " ", "o", "f">>))
UNIV_PATTERN == Word(Lit(<<"u", "n", "i", "v">>))

LowerChar(c) ==
    IF c \in Range(UpperCase)
    THEN LowerCase[CHOOSE i \in 1..Len(UpperCase) : UpperCase[i] = c]
    ELSE c

\* A mutant of Lower: the string is returned in the case it came in.
LowerMutant(str) == str

\* str.lower()
Lower(str) == [i \in 1..Len(str) |-> LowerChar(str[i])]

normalize(input) ==
    Lower(Sub(AMP_PATTERN, <<"a", "n", "d">>, Sub(PUNC_PATTERN, <<>>, input)))

University == <<"u", "n", "i", "v", "e", "r", "s", "i", "t", "y">>

normalize_univ(input) ==
    Sub(UNIV_PATTERN, University,
        Sub(UOF_PATTERN, University \o <<" ", "o", "f">>,
            Sub(UP_PATTERN, University \o <<" ", "p", "r", "e", "s", "s">>, input)))

(***************************************************************************)
(* compare.py: classify_by_format                                          *)
(***************************************************************************)

\* FORMAT_PATTERNS, in the insertion order of the dict.
FORMAT_PATTERNS ==
    << [format |-> "Hardcover",
        patterns |-> << Word(Lit(<<"h", "a", "r", "d">>) \o Opt({" ", "-"}) \o Lit(<<"c", "o", "v", "e", "r">>)),
                        Word(Lit(<<"h", "b">>) \o Opt({"k"})),
                        Word(Lit(<<"h", "c">>) \o Opt({"r"})) >>],
       [format |-> "Paperback",
        patterns |-> << Word(Lit(<<"p", "a", "p", "e", "r">>) \o Opt({" ", "-"}) \o Lit(<<"b", "a", "c", "k">>)),
                        Word(Lit(<<"p", "b">>) \o Opt({"k"})) >>],
       [format |-> "Ebook",
        patterns |-> << Word(Lit(<<"e">>) \o Opt({"-", " "}) \o Lit(<<"b", "o", "o", "k">>)),
                        Anywhere(Lit(<<"e", "l", "e", "c", "t", "r", "o", "n", "i", "c">>)),
                        Word(Lit(<<"e", "b">>) \o Opt({"k"})) >>] >>

\* pd.NA
NA == "<NA>"

\* matches: the format of every pattern found, formats and patterns in order.
RECURSIVE PatternMatches(_, _, _)
PatternMatches(format, patterns, normal_field) ==
    IF patterns = <<>> THEN <<>>
    ELSE (IF Search(Head(patterns), normal_field) THEN <<format>> ELSE <<>>)
         \o PatternMatches(format, Tail(patterns), normal_field)

RECURSIVE AllMatches(_, _)
AllMatches(formats, normal_field) ==
    IF formats = <<>> THEN <<>>
    ELSE PatternMatches(Head(formats).format, Head(formats).patterns, normal_field)
         \o AllMatches(Tail(formats), normal_field)

\* unique_matches: the first occurrence of each match, in order.
RECURSIVE UniqueMatches(_)
UniqueMatches(matches) ==
    IF matches = <<>> THEN <<>>
    ELSE LET front == UniqueMatches(SubSeq(matches, 1, Len(matches) - 1))
             match == matches[Len(matches)]
         IN  IF match \in Range(front) THEN front ELSE Append(front, match)

\* A mutant of ChosenFormat: the single-family test counts matches, not families.
ChosenFormatMutant(matches, unique_matches, format) ==
    IF Len(unique_matches) = 0 THEN NA
    ELSE IF Len(matches) = 1 THEN matches[1]
    ELSE format

\* The value returned. `format` is the function's local variable, which the
\* loop over FORMAT_PATTERNS.keys() has left bound to the last key; the branch
\* for several families logs and assigns nothing.
ChosenFormat(matches, unique_matches, format) ==
    IF Len(unique_matches) = 0 THEN NA
    ELSE IF Len(unique_matches) = 1 THEN matches[1]
    ELSE format

classify_by_format(field_to_analyze) ==
    LET normal_field == normalize(field_to_analyze)
        matches == AllMatches(FORMAT_PATTERNS, normal_field)
        format == FORMAT_PATTERNS[Len(FORMAT_PATTERNS)].format
        unique_matches == UniqueMatches(matches)
    IN  ChosenFormat(matches, unique_matches, format)

(***************************************************************************)
(* fuzz.ratio and fuzz.partial_ratio, as fuzzywuzzy computes them with     *)
(* difflib.SequenceMatcher (no junk: the strings are shorter than 200)     *)
(***************************************************************************)

\* Positions are counted from 1; a range lo, hi stands for lo..hi-1.
RECURSIVE CommonRun(_, _, _, _, _, _)
CommonRun(a, i, ahi, b, j, bhi) ==
    IF i < ahi /\ j < bhi /\ a[i] = b[j] THEN 1 + CommonRun(a, i + 1, ahi, b, j + 1, bhi) ELSE 0

MaxOf(S) == CHOOSE n \in S : \A m \in S : m <= n
MinOf(S) == CHOOSE n \in S : \A m \in S : n <= m

\* The length of the common run that starts at each pair of positions.
RunTable(a, b, alo, ahi, blo, bhi) ==
    [p \in (alo..(ahi - 1)) \X (blo..(bhi - 1)) |-> CommonRun(a, p[1], ahi, b, p[2], bhi)]

\* Among the starts of the runs of length k: the earliest in a, then in b.
EarliestIn(longest, i, k) ==
    [i |-> i, j |-> MinOf({p[2] : p \in {q \in longest : q[1] = i}}), k |-> k]

Earliest(longest, k) == EarliestIn(longest, MinOf({p[1] : p \in longest}), k)

LongestRun(run, k, alo, blo) ==
    IF k = 0 THEN [i |-> alo, j |-> blo, k |-> 0]
    ELSE Earliest({p \in DOMAIN run : run[p] = k}, k)

LongestOf(run, alo, blo) == LongestRun(run, MaxOf({run[p] : p \in DOMAIN run}), alo, blo)

\* find_longest_match: the longest common block; among the longest, the one
\* that starts earliest in a, and then earliest in b.
find_longest_match(a, b, alo, ahi, blo, bhi) ==
    LongestOf(RunTable(a, b, alo, ahi, blo, bhi), alo, blo)

\* get_matching_blocks, without the final sentinel: the longest block m, then
\* the blocks to its left and to its right, in increasing order.
RECURSIVE matching_blocks(_, _, _, _, _, _)
RECURSIVE BlocksAround(_, _, _, _, _, _, _)
BlocksAround(a, b, alo, ahi, blo, bhi, m) ==
    IF m.k = 0 THEN <<>>
    ELSE matching_blocks(a, b, alo, m.i, blo, m.j)
         \o <<m>>
         \o matching_blocks(a, b, m.i + m.k, ahi, m.j + m.k, bhi)

matching_blocks(a, b, alo, ahi, blo, bhi) ==
    IF alo >= ahi \/ blo >= bhi THEN <<>>
    ELSE BlocksAround(a, b, alo, ahi, blo, bhi, find_longest_match(a, b, alo, ahi, blo, bhi))

get_matching_blocks(a, b) ==
    matching_blocks(a, b, 1, Len(a) + 1, 1, Len(b) + 1)
    \o <<[i |-> Len(a) + 1, j |-> Len(b) + 1, k |-> 0]>>

RECURSIVE SumSizes(_)
SumSizes(blocks) == IF blocks = <<>> THEN 0 ELSE Head(blocks).k + SumSizes(Tail(blocks))

\* SequenceMatcher(None, a, b).ratio() as the fraction num / den:
\* 2.0 * matches / (len(a) + len(b)), and 1.0 for two empty strings.
SequenceMatcherRatio(a, b) ==
    IF Len(a) + Len(b) = 0 THEN [num |-> 1, den |-> 1]
    ELSE [num |-> 2 * SumSizes(get_matching_blocks(a, b)), den |-> Len(a) + Len(b)]

\* utils.intr(100 * r) = int(round(100 * r)): to the nearest integer, a half to
\* the even one. (In floating point an exact half needs len(a) + len(b) to be
\* a multiple of 16, and one next to a threshold of the model a multiple of 400.)
Intr100(r) ==
    LET n == 100 * r.num
        q == n \div r.den
        rest == n % r.den
    IN  IF 2 * rest < r.den THEN q
        ELSE IF 2 * rest > r.den THEN q + 1
        ELSE IF q % 2 = 0 THEN q ELSE q + 1

\* fuzz.ratio, with its decorators check_for_equivalence and check_empty_string.
ratio(s1, s2) ==
    IF s1 = s2 THEN 100
    ELSE IF Len(s1) = 0 \/ Len(s2) = 0 THEN 0
    ELSE Intr100(SequenceMatcherRatio(s1, s2))

\* s[start:end] of Python, start and end counted from 0.
PySlice(str, start, end) ==
    SubSeq(str, start + 1, IF end < Len(str) THEN end ELSE Len(str))

\* long_start of partial_ratio, counted from 0.
LongStart(block) == IF block.j - block.i > 0 THEN block.j - block.i ELSE 0

\* The ratio of the shorter string with the window of the longer one that
\* starts at long_start.
WindowRatio(shorter, longer, long_start) ==
    SequenceMatcherRatio(shorter, PySlice(longer, long_start, long_start + Len(shorter)))

WindowRatios(shorter, longer, blocks) ==
    [n \in 1..Len(blocks) |-> WindowRatio(shorter, longer, LongStart(blocks[n]))]

\* 100 as soon as a window's ratio exceeds .995, else the best ratio, rounded.
BestWindow(scores) ==
    IF \E n \in DOMAIN scores : 1000 * scores[n].num > 995 * scores[n].den
    THEN 100
    ELSE Intr100(scores[CHOOSE n \in DOMAIN scores :
                            \A o \in DOMAIN scores :
                                scores[o].num * scores[n].den <= scores[n].num * scores[o].den])

PartialOf(shorter, longer) ==
    BestWindow(WindowRatios(shorter, longer, get_matching_blocks(shorter, longer)))

\* fuzz.partial_ratio: the shorter string against the window of the longer one
\* that each matching block (the sentinel included) lines it up with.
partial_ratio(s1, s2) ==
    IF s1 = s2 THEN 100
    ELSE IF Len(s1) = 0 \/ Len(s2) = 0 THEN 0
    ELSE IF Len(s1) <= Len(s2) THEN PartialOf(s1, s2)
    ELSE PartialOf(s2, s1)

(***************************************************************************)
(* compare.py: tokenize and create_compare_func                            *)
(***************************************************************************)

\* \s of the re module; the strings of the model have no other whitespace.
IsSpace(c) == c = " "

\* WS_PATTERN.split(input): the pieces between runs of whitespace, an empty
\* piece before a leading and after a trailing run.
RECURSIVE SplitFrom(_, _, _)
SplitFrom(input, i, piece) ==
    IF i > Len(input) THEN <<piece>>
    ELSE IF IsSpace(input[i])
         THEN IF i < Len(input) /\ IsSpace(input[i + 1])
              THEN SplitFrom(input, i + 1, piece)
              ELSE <<piece>> \o SplitFrom(input, i + 1, <<>>)
         ELSE SplitFrom(input, i + 1, Append(piece, input[i]))

tokenize(input) == SplitFrom(input, 1, <<>>)

\* A transform is named by the function it is.
ApplyTransform(transform, str) ==
    IF transform = "normalize_univ" THEN normalize_univ(str) ELSE normalize(str)

RECURSIVE ApplyTransforms(_, _)
ApplyTransforms(transforms, str) ==
    IF transforms = <<>> THEN str
    ELSE ApplyTransforms(Tail(transforms), ApplyTransform(Head(transforms), str))

\* A mutant of Normalized: the transforms run on the raw string, normalize last.
NormalizedMutant(str, transforms) == normalize(ApplyTransforms(transforms, str))

\* normalize, then each transform in order: norm_left and norm_right.
Normalized(str, transforms) == ApplyTransforms(transforms, normalize(str))

\* The closure create_compare_func returns. `left` is the loop variable of the
\* construction loop, which compare_func reads: after the loop it is the last
\* reference, and it is unbound when there was none.
create_compare_func(lefts, thresh, transforms) ==
    [left_dicts |-> [n \in 1..Len(lefts) |->
                        [orig_left |-> lefts[n],
                         left_tokens |-> tokenize(lefts[n]),
                         norm_left |-> Normalized(lefts[n], transforms)]],
     thresh |-> thresh,
     transforms |-> transforms,
     left |-> IF lefts = <<>> THEN <<>> ELSE <<lefts[Len(lefts)]>>]

Abs(n) == IF n < 0 THEN 0 - n ELSE n

\* A mutant of MeetsThreshold: the score must exceed the threshold.
MeetsThresholdMutant(lev_ratio, thresh) == lev_ratio > thresh

\* full_lev_ratio >= thresh, partial_lev_ratio >= thresh
MeetsThreshold(lev_ratio, thresh) == lev_ratio >= thresh

\* The loop of compare_func from left_dicts[n] on.
RECURSIVE CompareFrom(_, _, _, _)
CompareFrom(closure, right, norm_right, n) ==
    IF n > Len(closure.left_dicts) THEN FALSE
    ELSE LET left_dict == closure.left_dicts[n]
             one_norm_left == left_dict.norm_left
             full_lev_ratio == ratio(one_norm_left, norm_right)
             right_tokens == tokenize(right)
             token_diff == Abs(Len(left_dict.left_tokens) - Len(right_tokens))
         IN  IF MeetsThreshold(full_lev_ratio, closure.thresh) THEN TRUE
             ELSE IF /\ token_diff < 3
                     /\ Len(closure.left[1]) > 4
                     /\ MeetsThreshold(partial_ratio(one_norm_left, norm_right), closure.thresh)
                  THEN TRUE
                  ELSE CompareFrom(closure, right, norm_right, n + 1)

\* compare_func(right): the value returned, with the norm_right it compared.
compare_func(closure, right) ==
    LET norm_right == Normalized(right, closure.transforms)
    IN  [result |-> CompareFrom(closure, right, norm_right, 1), norm_right |-> norm_right]

(***************************************************************************)
(* db_cache.py: the cache key                                              *)
(***************************************************************************)

\* A params dict is a sequence of [name, value] entries with distinct names,
\* in insertion order (a Python dict keeps insertion order).
DictKeys(d) == [i \in 1..Len(d) |-> d[i].name]
DictGet(d, n) == (CHOOSE i \in 1..Len(d) : d[i].name = n)
DictValue(d, n) == d[DictGet(d, n)].value

\* sorted(names): by repeated selection of the least name.
RECURSIVE SortedSet(_)
SortedSet(S) ==
    IF S = {} THEN <<>>
    ELSE LET m == CHOOSE x \in S : \A y \in S \ {x} : StrLess(x, y)
         IN  <<m>> \o SortedSet(S \ {m})

\* A mutant of Sorted: the names are left in insertion order.
SortedMutant(names) == names

Sorted(names) == SortedSet(Range(names))

DefaultPrivateKeys == {<<"w", "s", "k", "e", "y">>}

\* A mutant of IsPrivate: no parameter is dropped.
IsPrivateMutant(param, private_keys) == FALSE

\* The test 'param not in private_keys', negated.
IsPrivate(param, private_keys) == param \in private_keys

\* '{}-{}'.format(param, params_dict[param])
FormatField(param, value) == param \o <<"-">> \o value

RECURSIVE KeyFields(_, _, _)
KeyFields(sorted_params, params_dict, private_keys) ==
    IF sorted_params = <<>> THEN <<>>
    ELSE LET param == Head(sorted_params)
             rest == KeyFields(Tail(sorted_params), params_dict, private_keys)
         IN  IF IsPrivate(param, private_keys)
             THEN rest
             ELSE <<FormatField(param, DictValue(params_dict, param))>> \o rest

create_unique_request_str(base_url, params_dict, private_keys) ==
    LET sorted_params == Sorted(DictKeys(params_dict))
        fields == KeyFields(sorted_params, params_dict, private_keys)
    IN  base_url \o Join(<<"&">>, fields)

(***************************************************************************)
(* db_cache.py: the store and make_request_using_cache                     *)
(***************************************************************************)

\* The string literal of the WHERE clause, read as SQLite's tokenizer reads it.
\* The f-string puts the key between two single quotes without escaping it, so
\* `text` is the key followed by the closing quote. Inside a literal two
\* adjacent quotes stand for one quote character; a single quote ends it.
\* The statement is well formed only when the literal ends where the text ends:
\* the characters of the model's keys (no semicolon, no comment mark) make whatever
\* follows an earlier closing quote a syntax error or an unknown column, and a
\* literal left open is an unrecognized token.
\* The quote at position q: doubled, it stands for one quote of the literal;
\* alone, it ends the literal, and the statement is well formed only when
\* nothing follows it.
RECURSIVE ScanLiteral(_, _, _)
ScanQuote(text, q, acc) ==
    IF q < Len(text) /\ text[q + 1] = "'"
    THEN ScanLiteral(text, q + 2, Append(acc, "'"))
    ELSE [ok |-> q = Len(text), value |-> IF q = Len(text) THEN acc ELSE <<>>]

ScanLiteral(text, i, acc) ==
    IF {q \in i..Len(text) : text[q] = "'"} = {} THEN [ok |-> FALSE, value |-> <<>>]
    ELSE ScanQuote(text, MinOf({q \in i..Len(text) : text[q] = "'"}),
                   acc \o SubSeq(text, i, MinOf({q \in i..Len(text) : text[q] = "'"}) - 1))

\* A mutant of SqlLiteral: the key is bound as a parameter, never parsed.
SqlLiteralMutant(unique_req_url) == [ok |-> TRUE, value |-> unique_req_url]

\* What  SELECT * FROM request WHERE request_url = '{unique_req_url}';  compares
\* request_url with, or ok = FALSE when the statement raises.
SqlLiteral(unique_req_url) == ScanLiteral(Append(unique_req_url, "'"), 1, <<>>)

\* pd.read_sql of that statement: the rows it selects, in rowid order.
SelectRows(rows, literal) == SelectSeq(rows, LAMBDA r : r.request_url = literal)

\* A mutant of UniqueViolation: the table has no UNIQUE constraint.
UniqueViolationMutant(rows, request_url) == FALSE

\* 'request_url' TEXT NOT NULL UNIQUE: an insert of a key the table holds raises.
UniqueViolation(rows, request_url) == \E i \in 1..Len(rows) : rows[i].request_url = request_url

\* A mutant of IsFailure: only the API limit (403) is treated as a failure.
IsFailureMutant(status_code) == status_code = 403

\* status_code == 403, or status_code != 200: both branches return ''.
IsFailure(status_code) == status_code = 403 \/ status_code # 200

\* The non-private (name, value) pairs of a params dict.
PublicPart(params) ==
    {<<params[i].name, params[i].value>> : i \in {j \in 1..Len(params) : params[j].name \notin DefaultPrivateKeys}}

\* The outcome of make_request_using_cache(url, params) on table `rows` at time
\* `clock`, when the upstream service would answer (status_code, text):
\* the rows afterwards and the record of the call.
make_request_using_cache(rows, clock, url, params, status_code, text) ==
    LET unique_req_url == create_unique_request_str(url, params, DefaultPrivateKeys)
        literal == SqlLiteral(unique_req_url)
        cache_df == SelectRows(rows, literal.value)
        call == [pub |-> PublicPart(params), url |-> url, key |-> unique_req_url,
                 net |-> FALSE, status |-> 0, ret |-> <<>>, raised |-> FALSE]
    IN  IF ~literal.ok
        THEN \* pd.read_sql raises; nothing was requested or written
             [rows |-> rows, call |-> [call EXCEPT !.raised = TRUE]]
        ELSE IF cache_df # <<>>
        THEN [rows |-> rows, call |-> [call EXCEPT !.ret = cache_df[1].response]]
        ELSE IF IsFailure(status_code)
        THEN [rows |-> rows,
              call |-> [call EXCEPT !.net = TRUE, !.status = status_code]]
        ELSE IF UniqueViolation(rows, unique_req_url)
        THEN \* to_sql raises IntegrityError after the request was made
             [rows |-> rows,
              call |-> [call EXCEPT !.net = TRUE, !.status = status_code, !.raised = TRUE]]
        ELSE [rows |-> Append(rows, [request_id |-> Len(rows) + 1,
                                     request_url |-> unique_req_url,
                                     response |-> text,
                                     timestamp |-> clock]),
              call |-> [call EXCEPT !.net = TRUE, !.status = status_code, !.ret = text]]

\* Bounds of the cache model.
MaxCalls == 3
MaxParams == 2

Urls == {<<"u">>, <<"v">>}
\* The entries a params dict of the cache model is made of: a public parameter
\* whose value may hold single quotes, and the private API key.
ParamEntries ==
    [name : {<<"a">>}, value : {<<"1">>, <<"'">>, <<"'", "'">>}]
    \cup [name : DefaultPrivateKeys, value : {<<"k">>, <<"s">>}]
\* The answers of the upstream service: two bodies with HTTP 200, the API limit
\* (403) and another irregular status, each with an error text.
Responses ==
    {[status_code |-> 200, text |-> <<"x">>], [status_code |-> 200, text |-> <<"y">>],
     [status_code |-> 403, text |-> <<"e">>], [status_code |-> 500, text |-> <<"e">>]}

\* Every params dict of at most n of the given entries.
Dicts(entries, n) ==
    {d \in SeqsUpTo(entries, n) : \A i, j \in 1..Len(d) : i # j => d[i].name # d[j].name}

ParamDicts == Dicts(ParamEntries, MaxParams)

\* One call of make_request_using_cache; the upstream answer is an input.
Fetch ==
    /\ now < MaxCalls
    /\ \E url \in Urls, params \in ParamDicts, response_obj \in Responses :
          LET r == make_request_using_cache(store, now, url, params,
                                            response_obj.status_code, response_obj.text)
          IN  /\ store' = r.rows
              /\ calls' = IF calls = <<>> THEN <<r.call>> ELSE <<calls[Len(calls)], r.call>>
    /\ now' = now + 1
    /\ UNCHANGED <<batchVars, keyVars, normVars, univVars, fmtVars, cmpVars>>

\* set_up_database has created an empty table 'request'; nothing was called yet.
CacheInit ==
    /\ store = <<>>
    /\ now = 0
    /\ calls = <<>>

KeyIdle ==
    /\ keyArgs = <<>>
    /\ keyOut = <<>>

\* The text functions have not been called.
NormIdle == normTrace = <<>>
UnivIdle == univIn = <<>> /\ univOut = <<>>
FmtIdle == fmtIn = <<>> /\ fmtOut = <<>>
CmpIdle == cmp = <<>> /\ cmpArgs = <<>> /\ cmpRight = <<>> /\ cmpOut = <<>>
\* identify_books has not been run.
BatchIdle == batch = <<>>

Init ==
    /\ CacheInit
    /\ KeyIdle
    /\ NormIdle /\ UnivIdle /\ FmtIdle /\ CmpIdle /\ BatchIdle

Next == Fetch

Spec == Init /\ [][Next]_vars

\* The last call and the one before it.
LastCall == calls[Len(calls)]
PrevCall == calls[1]
SameRequest(c1, c2) == c1.url = c2.url /\ c1.pub = c2.pub
RowsWithKey(key) == {i \in 1..Len(store) : store[i].request_url = key}

\* C1: of two sequential fetches with the same url and the same non-private
\* parameters, the first of which received HTTP 200, only the first goes to the
\* network, the second returns the first's body, and the store holds exactly one
\* row for the key.
C1_FetchIdempotent ==
    (/\ Len(calls) = 2
     /\ SameRequest(PrevCall, LastCall)
     /\ PrevCall.net
     /\ PrevCall.status = 200)
    => /\ ~LastCall.net
       /\ ~LastCall.raised
       /\ LastCall.ret = PrevCall.ret
       /\ Cardinality(RowsWithKey(PrevCall.key)) = 1

\* C2: a fetch answered with HTTP 403 or another non-200 status returns the empty
\* string and leaves the store as it was, and the next fetch of the same request
\* goes to the network again.
C2_FailureLeavesStore ==
    (now' # now /\ LastCall'.net /\ LastCall'.status # 200)
    => /\ LastCall'.ret = <<>>
       /\ ~LastCall'.raised
       /\ store' = store

C2_RetryAfterFailure ==
    (/\ Len(calls) = 2
     /\ SameRequest(PrevCall, LastCall)
     /\ PrevCall.net
     /\ PrevCall.status # 200)
    => LastCall.net

C2_FailedFetchNeverCached == [][C2_FailureLeavesStore]_vars /\ []C2_RetryAfterFailure

\* C2's case: a 403 answer, then the same request answered with 200 from the network.
C2_Witness ==
    /\ Len(calls) = 2
    /\ SameRequest(PrevCall, LastCall)
    /\ PrevCall.net /\ PrevCall.status = 403 /\ PrevCall.ret = <<>>
    /\ LastCall.net /\ LastCall.status = 200
    /\ Len(store) = 1

\* C4: no two rows of the store have the same request_url, and a call keeps
\* every row it found, with its response and its timestamp.
C4_UniqueKeys ==
    \A i, j \in 1..Len(store) : store[i].request_url = store[j].request_url => i = j

C4_RowsKept ==
    /\ Len(store) <= Len(store')
    /\ \A i \in 1..Len(store) : store'[i] = store[i]

C4_AppendOnlyUniqueKeys == []C4_UniqueKeys /\ [][C4_RowsKept]_vars

\* C4's case: the store holds rows and the insert of a key it already holds was
\* refused after a request answered with HTTP 200.
C4_Witness ==
    /\ Len(store) >= 2
    /\ LastCall.net /\ LastCall.status = 200 /\ LastCall.raised
    /\ RowsWithKey(LastCall.key) # {}

(***************************************************************************)
(* create_unique_request_str on its own: two dicts, one base url           *)
(***************************************************************************)

MaxKeyParams == 3

KeyUrl == <<"u", "/">>

\* Names of which one is a prefix of another, and the private API key.
KeyEntries ==
    [name : {<<"a">>}, value : {<<"1">>, <<"2">>}]
    \cup [name : {<<"a", "b">>, <<"b">>}, value : {<<"1">>}]
    \cup [name : DefaultPrivateKeys, value : {<<"k">>, <<"s">>}]

KeyDicts == Dicts(KeyEntries, MaxKeyParams)

KeyInit ==
    /\ keyArgs \in [url : {KeyUrl}, d1 : KeyDicts, d2 : KeyDicts]
    /\ keyOut = <<>>

\* create_unique_request_str is called on each of the two dicts.
MakeKeys ==
    /\ keyOut = <<>>
    /\ keyOut' = <<create_unique_request_str(keyArgs.url, keyArgs.d1, DefaultPrivateKeys),
                   create_unique_request_str(keyArgs.url, keyArgs.d2, DefaultPrivateKeys)>>
    /\ UNCHANGED <<batchVars, keyArgs, cacheVars, normVars, univVars, fmtVars, cmpVars>>

InitKey ==
    /\ CacheInit
    /\ KeyInit
    /\ NormIdle /\ UnivIdle /\ FmtIdle /\ CmpIdle /\ BatchIdle

NextKey == MakeKeys

SpecKey == InitKey /\ [][NextKey]_vars

\* The key the specification describes: the base url, then the 'name-value' pairs
\* of the non-private parameters in increasing name order, joined by '&'.
InNameOrder(pairs) ==
    CHOOSE seq \in [1..Cardinality(pairs) -> pairs] :
        \A i, j \in 1..Cardinality(pairs) : i < j => StrLess(seq[i][1], seq[j][1])

RECURSIVE AmpJoined(_)
AmpJoined(seq) ==
    IF seq = <<>> THEN <<>>
    ELSE seq[1][1] \o <<"-">> \o seq[1][2]
         \o (IF Len(seq) > 1 THEN <<"&">> ELSE <<>>) \o AmpJoined(Tail(seq))

DescribedKey(url, params) == url \o AmpJoined(InNameOrder(PublicPart(params)))

\* C3: two dicts with the same non-private names and values give the same key,
\* whatever their insertion order and their private parameter, and the key is
\* the base url followed by the public 'name-value' pairs in name order.
C3_KeyOrderIndependent ==
    keyOut # <<>> =>
        /\ keyOut[1] = DescribedKey(keyArgs.url, keyArgs.d1)
        /\ keyOut[2] = DescribedKey(keyArgs.url, keyArgs.d2)
        /\ PublicPart(keyArgs.d1) = PublicPart(keyArgs.d2) => keyOut[1] = keyOut[2]

\* C3's case: the same two public parameters inserted in opposite orders, one
\* dict with the private key and one without it.
C3_Witness ==
    /\ keyOut # <<>>
    /\ PublicPart(keyArgs.d1) = PublicPart(keyArgs.d2)
    /\ Cardinality(PublicPart(keyArgs.d1)) = 2
    /\ Len(keyArgs.d1) = 3 /\ Len(keyArgs.d2) = 2
    /\ keyArgs.d1[1].name = keyArgs.d2[2].name
    /\ keyOut[1] = keyOut[2]

(***************************************************************************)
(* normalize on its own                                                    *)
(***************************************************************************)

MaxNormLen == 3

\* Every concatenation of at most n of the given pieces.
RECURSIVE Concat(_)
Concat(parts) == IF parts = <<>> THEN <<>> ELSE Head(parts) \o Concat(Tail(parts))
Phrases(pieces, n) == {Concat(parts) : parts \in SeqsUpTo(pieces, n)}

NormAlphabet == {"A", "b", "&", ",", ".", "#", ":", " "}

\* 'A & B, Inc.'
NormExample == <<"A", " ", "&", " ", "B", ",", " ", "I", "n", "c", ".">>

NormInputs == SeqsUpTo(NormAlphabet, MaxNormLen) \cup {NormExample}

NormInit == normTrace \in {<<input>> : input \in NormInputs}

\* normalize is called on the latest result (first on the input).
Normalize ==
    /\ Len(normTrace) \in {1, 2}
    /\ normTrace' = Append(normTrace, normalize(normTrace[Len(normTrace)]))
    /\ UNCHANGED <<batchVars, cacheVars, keyVars, univVars, fmtVars, cmpVars>>

InitNorm ==
    /\ CacheInit /\ KeyIdle
    /\ NormInit
    /\ UnivIdle /\ FmtIdle /\ CmpIdle /\ BatchIdle

NextNorm == Normalize

SpecNorm == InitNorm /\ [][NextNorm]_vars

\* What the specification says of each character: , . # : are stripped, & becomes
\* 'and', a letter becomes its lowercase form, anything else (whitespace) stays.
NormalizedChar(c) ==
    IF c \in {",", ".", "#", ":"} THEN <<>>
    ELSE IF c = "&" THEN <<"a", "n", "d">>
    ELSE IF c \in Range(UpperCase)
         THEN <<CHOOSE l \in Range(LowerCase) : Ord(l) - Ord("a") = Ord(c) - Ord("A")>>
         ELSE <<c>>

RECURSIVE CharByChar(_)
CharByChar(str) ==
    IF str = <<>> THEN <<>> ELSE NormalizedChar(Head(str)) \o CharByChar(Tail(str))

\* C9: normalize(normalize(s)) = normalize(s); the result has none of , . # : &
\* and no uppercase letter; whitespace stays where it is (the result is the
\* input mapped character by character); normalize('A & B, Inc.') = 'a and b inc'.
C9_NormalizeIdempotent ==
    /\ Len(normTrace) >= 2 =>
          /\ normTrace[2] = CharByChar(normTrace[1])
          /\ Range(normTrace[2]) \cap ({",", ".", "#", ":", "&"} \cup Range(UpperCase)) = {}
          /\ normTrace[1] = NormExample =>
                normTrace[2] = <<"a", " ", "a", "n", "d", " ", "b", " ", "i", "n", "c">>
    /\ Len(normTrace) = 3 => normTrace[3] = normTrace[2]

\* C9's case: an input with an uppercase letter, an ampersand, punctuation and a
\* space, normalized twice.
C9_Witness ==
    /\ Len(normTrace) = 3
    /\ {"A", "&", " "} \subseteq Range(normTrace[1])
    /\ normTrace[2] # normTrace[1]
    /\ normTrace[3] = normTrace[2]

(***************************************************************************)
(* classify_by_format on its own                                           *)
(***************************************************************************)

MaxFormatPieces == 3

FormatPieces ==
    { <<"h", "a", "r", "d">>, <<"c", "o", "v", "e", "r">>, <<" ">>, <<"-">>,
      <<"h", "b">>, <<"k">>, <<"h", "c", "r">>, <<"p", "b">>,
      <<"e", "b", "o", "o", "k">>, <<"e", "l", "e", "c", "t", "r", "o", "n", "i", "c">> }

\* 'Hardcover edition'
FormatExample ==
    <<"H", "a", "r", "d", "c", "o", "v", "e", "r", " ", "e", "d", "i", "t", "i", "o", "n">>

FormatInputs == Phrases(FormatPieces, MaxFormatPieces) \cup {FormatExample}

FmtInit == fmtIn \in FormatInputs /\ fmtOut = <<>>

Classify ==
    /\ fmtOut = <<>>
    /\ fmtOut' = <<classify_by_format(fmtIn)>>
    /\ UNCHANGED <<batchVars, fmtIn, cacheVars, keyVars, normVars, univVars, cmpVars>>

InitFmt ==
    /\ CacheInit /\ KeyIdle /\ NormIdle /\ UnivIdle /\ CmpIdle /\ BatchIdle
    /\ FmtInit

NextFmt == Classify

SpecFmt == InitFmt /\ [][NextFmt]_vars

\* The families as the specification lists them: whole-word alternatives, and
\* 'electronic' anywhere in the text.
FamilyWords ==
    [Hardcover |-> { <<"h", "a", "r", "d", "c", "o", "v", "e", "r">>,
                     <<"h", "a", "r", "d", " ", "c", "o", "v", "e", "r">>,
                     <<"h", "a", "r", "d", "-", "c", "o", "v", "e", "r">>,
                     <<"h", "b">>, <<"h", "b", "k">>, <<"h", "c">>, <<"h", "c", "r">> },
     Paperback |-> { <<"p", "a", "p", "e", "r", "b", "a", "c", "k">>,
                     <<"p", "a", "p", "e", "r", " ", "b", "a", "c", "k">>,
                     <<"p", "a", "p", "e", "r", "-", "b", "a", "c", "k">>,
                     <<"p", "b">>, <<"p", "b", "k">> },
     Ebook |-> { <<"e", "b", "o", "o", "k">>, <<"e", "-", "b", "o", "o", "k">>,
                 <<"e", " ", "b", "o", "o", "k">>, <<"e", "b">>, <<"e", "b", "k">> }]

OccursAt(w, s, i) == i + Len(w) - 1 <= Len(s) /\ SubSeq(s, i, i + Len(w) - 1) = w
IsWordAt(s, i) == i >= 1 /\ i <= Len(s) /\ IsWordChar(s[i])
WholeWordIn(w, s) ==
    \E i \in 1..Len(s) : OccursAt(w, s, i) /\ ~IsWordAt(s, i - 1) /\ ~IsWordAt(s, i + Len(w))
ContainedIn(w, s) == \E i \in 1..Len(s) : OccursAt(w, s, i)

FamilyOrder == <<"Hardcover", "Paperback", "Ebook">>

FamilyMatches(family, s) ==
    \/ \E w \in FamilyWords[family] : WholeWordIn(w, s)
    \/ family = "Ebook" /\ ContainedIn(<<"e", "l", "e", "c", "t", "r", "o", "n", "i", "c">>, s)

\* The families matching the normalized form of the input, as indices of FamilyOrder.
MatchedFamilies(field) == {k \in 1..Len(FamilyOrder) : FamilyMatches(FamilyOrder[k], CharByChar(field))}

\* C5: when more than one family matches, the first matching family in the
\* order Hardcover, Paperback, Ebook is returned, never one that did not match.
C5_FirstMatchingFamily ==
    fmtOut # <<>> =>
        LET matched == MatchedFamilies(fmtIn)
        IN  Cardinality(matched) > 1 =>
                fmtOut[1] = FamilyOrder[CHOOSE k \in matched : \A j \in matched : k <= j]

\* C6: no family matching gives the missing value, exactly one family matching
\* gives that family, however many of its patterns match; 'Hardcover edition'
\* gives Hardcover, 'ebook' gives Ebook and '' gives the missing value.
C6_ZeroOrOneFamily ==
    fmtOut # <<>> =>
        LET matched == MatchedFamilies(fmtIn)
        IN  /\ matched = {} => fmtOut[1] = NA
            /\ \A k \in 1..Len(FamilyOrder) : matched = {k} => fmtOut[1] = FamilyOrder[k]
            /\ fmtIn = FormatExample => fmtOut[1] = "Hardcover"
            /\ fmtIn = <<"e", "b", "o", "o", "k">> => fmtOut[1] = "Ebook"
            /\ fmtIn = <<>> => fmtOut[1] = NA

\* C6's case: two patterns of the one family Hardcover match ('hard-cover' and 'hb').
C6_Witness ==
    /\ fmtOut = <<"Hardcover">>
    /\ Len(AllMatches(FORMAT_PATTERNS, normalize(fmtIn))) = 2
    /\ MatchedFamilies(fmtIn) = {1}

(***************************************************************************)
(* normalize_univ on its own                                               *)
(***************************************************************************)

MaxUnivPieces == 3

UnivPieces ==
    { <<"u", "p">>, <<"U", "P">>, <<"u">>, <<"U">>, <<" ">>, <<"o", "f">>,
      <<"u", "n", "i", "v">>, <<"U", "n", "i", "v">>, <<"x">> }

UnivInputs == Phrases(UnivPieces, MaxUnivPieces)

UnivInit == univIn \in UnivInputs /\ univOut = <<>>

NormalizeUniv ==
    /\ univOut = <<>>
    /\ univOut' = <<normalize_univ(univIn)>>
    /\ UNCHANGED <<batchVars, univIn, cacheVars, keyVars, normVars, fmtVars, cmpVars>>

InitUniv ==
    /\ CacheInit /\ KeyIdle /\ NormIdle /\ FmtIdle /\ CmpIdle /\ BatchIdle
    /\ UnivInit

NextUniv == NormalizeUniv

SpecUniv == InitUniv /\ [][NextUniv]_vars

\* The words of a string: its maximal runs of word characters, and between them
\* each other character on its own.
RECURSIVE WordsOf(_)
WordsOf(str) ==
    IF str = <<>> THEN <<>>
    ELSE IF ~IsWordChar(str[1]) THEN <<<<str[1]>>>> \o WordsOf(Tail(str))
    ELSE LET n == CHOOSE m \in 1..Len(str) :
                      /\ \A i \in 1..m : IsWordChar(str[i])
                      /\ m = Len(str) \/ ~IsWordChar(str[m + 1])
         IN  <<SubSeq(str, 1, n)>> \o WordsOf(SubSeq(str, n + 1, Len(str)))

\* The substitutions the specification describes, word by word: 'up' becomes
\* 'university press', 'u of' becomes 'university of', 'univ' becomes
\* 'university'; with any_case the words are recognised in any letter case.
RECURSIVE WordsSubstituted(_, _)
WordsSubstituted(words, any_case) ==
    LET Is(word, lower) == IF any_case THEN CharByChar(word) = lower ELSE word = lower
    IN  IF words = <<>> THEN <<>>
        ELSE IF Is(words[1], <<"u", "p">>)
             THEN University \o <<" ", "p", "r", "e", "s", "s">>
                  \o WordsSubstituted(Tail(words), any_case)
        ELSE IF Is(words[1], <<"u", "n", "i", "v">>)
             THEN University \o WordsSubstituted(Tail(words), any_case)
        ELSE IF /\ Len(words) >= 3
                /\ Is(words[1], <<"u">>) /\ words[2] = <<" ">> /\ Is(words[3], <<"o", "f">>)
             THEN University \o <<" ", "o", "f">>
                  \o WordsSubstituted(SubSeq(words, 4, Len(words)), any_case)
        ELSE words[1] \o WordsSubstituted(Tail(words), any_case)

\* C10 as stated: the whole words 'up', 'u of' and 'univ' are substituted in any
\* letter case, and nothing else changes.
C10_AnyCaseSubstitution ==
    univOut # <<>> => univOut[1] = WordsSubstituted(WordsOf(univIn), TRUE)

\* C10 as amended: the whole words 'up', 'u of' and 'univ' are substituted when
\* they are in lowercase, and nothing else changes: the same words in another
\* letter case and the same letters inside a longer word are left as they are.
C10_LowercaseSubstitution ==
    univOut # <<>> => univOut[1] = WordsSubstituted(WordsOf(univIn), FALSE)

\* C10's case: 'UP up' becomes 'UP university press'.
C10_Witness ==
    /\ univIn = <<"U", "P", " ", "u", "p">>
    /\ univOut = <<<<"U", "P", " ">> \o University \o <<" ", "p", "r", "e", "s", "s">>>>

(***************************************************************************)
(* create_compare_func and the comparator it returns                       *)
(***************************************************************************)

MaxRefs == 2

TitleLeft ==
    << "T", "h", "e", " ", "h", "o", "u", "n", "d", " ", "o", "f", " ", "t", "h", "e",
       " ", "B", "a", "s", "k", "e", "r", "v", "i", "l", "l", "e", "s" >>
TitleRight ==
    << "H", "O", "U", "N", "D", " ", "O", "F", " ", "T", "H", "E", " ", "B", "A", "S",
       "K", "E", "R", "V", "I", "L", "L", "E", "S", "." >>
ImprintLeft ==
    << "U", "n", "i", "v", "e", "r", "s", "i", "t", "y", " ", "o", "f", " ", "M", "I",
       " ", "P", "r", "e", "s", "s" >>
ImprintRight ==
    << "U", "n", "i", "v", ".", " ", "o", "f", " ", "M", "i", "c", "h", "i", "g", "a",
       "n", " ", "P", "r", "e", "s", "s" >>

CmpRefs == {TitleLeft, ImprintLeft, <<"U", "p", ".">>}
CmpCandidates == {TitleRight, ImprintRight, <<"U", "P">>, <<"u", " ", "o", "f">>, <<>>}
CmpThresholds == {0, 85, 100}
CmpTransforms == {<<>>, <<"normalize_univ">>}

\* compare_to = create_compare_func(lefts, thresh, transforms)
Build ==
    /\ cmp = <<>>
    /\ \E lefts \in SeqsUpTo(CmpRefs, MaxRefs), thresh \in CmpThresholds,
          transforms \in CmpTransforms :
          /\ cmpArgs' = [lefts |-> lefts, thresh |-> thresh, transforms |-> transforms]
          /\ cmp' = <<create_compare_func(lefts, thresh, transforms)>>
    /\ UNCHANGED <<batchVars, cmpRight, cmpOut, cacheVars, keyVars, normVars, univVars, fmtVars>>

\* compare_to(right). compare_func changes nothing, so the calls of one
\* comparator are independent of each other: each run makes one.
Test ==
    /\ cmp # <<>>
    /\ cmpOut = <<>>
    /\ \E right \in CmpCandidates :
          /\ cmpRight' = <<right>>
          /\ cmpOut' = <<compare_func(cmp[1], right)>>
    /\ UNCHANGED <<batchVars, cmp, cmpArgs, cacheVars, keyVars, normVars, univVars, fmtVars>>

InitCmp ==
    /\ CacheInit /\ KeyIdle /\ NormIdle /\ UnivIdle /\ FmtIdle
    /\ CmpIdle /\ BatchIdle

NextCmp == Build \/ Test

SpecCmp == InitCmp /\ [][NextCmp]_vars

\* The normalized form the specification describes: normalize character by
\* character, then each transform in order, the institution transform as the
\* word-by-word substitution in any letter case.
RECURSIVE DescribedTransforms(_, _)
DescribedTransforms(transforms, str) ==
    IF transforms = <<>> THEN str
    ELSE DescribedTransforms(Tail(transforms),
                             IF Head(transforms) = "normalize_univ"
                             THEN WordsSubstituted(WordsOf(str), TRUE)
                             ELSE CharByChar(str))

DescribedForm(str, transforms) == DescribedTransforms(transforms, CharByChar(str))

WC_API_KEY == <<"k">>
WC_BIB_BASE_URL == <<"w", "c", "?">>

\* A known record (book_dict) is one row of the input sheet after the
\* crosswalk: ID, Title, Subtitle, Author_Last and the columns 'Publisher 1',
\* 'Publisher 2', ... as the sequence Publishers.
create_full_title(record) ==
    IF record.Subtitle \notin {<<"N", "/", "A">>, <<>>}
    THEN record.Title \o <<" ">> \o record.Subtitle
    ELSE record.Title

\* str.replace(old, new) for one-character old and new.
Replace(str, old, new) == [i \in 1..Len(str) |-> IF str[i] = old THEN new ELSE str[i]]

\* query_str: the apostrophes of the author are replaced, those of the title
\* are not (normalize keeps them).
QueryStr(book_dict) ==
    LET full_title == create_full_title(book_dict)
        query_author == Replace(book_dict.Author_Last, "'", " ")
        query_title == normalize(full_title)
    IN  <<"s", "r", "w", ".", "t", "i", " ", "a", "l", "l", " ", "\"">> \o query_title
        \o <<"\"", " ", "a", "n", "d", " ", "s", "r", "w", ".", "a", "u", " ", "a", "l", "l", " ", "\"">>
        \o query_author \o <<"\"">>

\* params of look_up_book_in_worldcat, in insertion order.
LookupParams(book_dict) ==
    << [name |-> <<"w", "s", "k", "e", "y">>, value |-> WC_API_KEY],
       [name |-> <<"q", "u", "e", "r", "y">>, value |-> QueryStr(book_dict)],
       [name |-> <<"m", "a", "x", "i", "m", "u", "m", "R", "e", "c", "o", "r", "d", "s">>,
        value |-> <<"1", "0", "0">>],
       [name |-> <<"f", "r", "b", "r", "G", "r", "o", "u", "p", "i", "n", "g">>,
        value |-> <<"o", "f", "f">>] >>

\* What the upstream service does when it is asked: it answers with a status
\* and a body, or no answer arrives and requests.get raises (error).  A body is
\* the sequence of the elements BeautifulSoup finds in it, <<>> for the empty
\* string: [tag |-> "numberOfRecords"], [tag |-> "recordData", data |-> the
\* fields of one candidate], or anything else.
NoAnswer == [error |-> TRUE, status_code |-> 0, text |-> <<>>]
Answer(status_code, text) == [error |-> FALSE, status_code |-> status_code, text |-> text]

\* make_request_using_cache(url, params) when requests.get may raise: the
\* exception leaves the function on a cache miss, before anything is stored.
MakeRequest(rows, clock, url, params, upstream) ==
    LET r == make_request_using_cache(rows, clock, url, params,
                                      upstream.status_code, upstream.text)
    IN  IF upstream.error /\ r.call.net
        THEN [rows |-> rows, call |-> [r.call EXCEPT !.raised = TRUE]]
        ELSE r

\* result_xml.find_all(tag)
FindAll(result_xml, tag) == SelectSeq(result_xml, LAMBDA e : e.tag = tag)

\* parse_marcxml(xml_record): result_xml.find("numberOfRecords").text raises
\* AttributeError when the body has no such element; else one record_dict per
\* recordData element.
parse_marcxml(xml_record) ==
    LET records == FindAll(xml_record, "recordData")
    IN  IF FindAll(xml_record, "numberOfRecords") = <<>>
        THEN [raised |-> TRUE, record_dicts |-> <<>>]
        ELSE [raised |-> FALSE, record_dicts |-> [n \in 1..Len(records) |-> records[n].data]]

\* look_up_book_in_worldcat after make_request_using_cache returned or raised
\* (r): whether an exception left the function, whether result was empty (not
\* result), and the rows of records_df.
LookedUp(r, parsed) ==
    IF r.call.raised
    THEN [rows |-> r.rows, raised |-> TRUE, empty_result |-> FALSE, records_df |-> <<>>]
    ELSE IF r.call.ret = <<>>
    THEN [rows |-> r.rows, raised |-> FALSE, empty_result |-> TRUE, records_df |-> <<>>]
    ELSE [rows |-> r.rows, raised |-> parsed.raised, empty_result |-> FALSE,
          records_df |-> parsed.record_dicts]

Parsed(r) == LookedUp(r, parse_marcxml(r.call.ret))

\* look_up_book_in_worldcat(book_dict), with the table afterwards.
look_up_book_in_worldcat(rows, clock, book_dict, upstream) ==
    Parsed(MakeRequest(rows, clock, WC_BIB_BASE_URL, LookupParams(book_dict), upstream))

(***************************************************************************)
(* identify.py: the checks and the manifestations of one known record     *)
(***************************************************************************)

\* A candidate (one record_dict of parse_marcxml) has Title, Subtitle,
\* Publisher and the columns 'ISBN a n', 'ISBN q n' as the sequence ISBN of
\* [a, q] pairs.

\* run_checks_and_return_matches(orig_record, results_df): the candidates whose
\* Title + Subtitle passes compare_to_title and whose Publisher passes
\* compare_to_publisher.
run_checks_and_return_matches(orig_record, results_df) ==
    IF results_df = <<>> THEN <<>>
    ELSE LET full_title == create_full_title(orig_record)
             compare_to_title == create_compare_func(<<full_title>>, 85, <<>>)
             known_publishers == orig_record.Publishers
             compare_to_publisher ==
                 create_compare_func(known_publishers, 85, <<"normalize_univ">>)
         IN  SelectSeq(results_df,
                       LAMBDA c : /\ compare_func(compare_to_title, c.Title \o c.Subtitle).result
                                  /\ compare_func(compare_to_publisher, c.Publisher).result)

\* str.split(): the pieces between runs of whitespace, none of them empty.
PySplit(input) == SelectSeq(tokenize(input), LAMBDA piece : piece # <<>>)

polish_isbn(input) == PySplit(input)[1]

\* extract_extra_atoms(input) of a cell without parentheses: <<the atoms after
\* the first, joined>>, or <<>> for pd.NA.
extract_extra_atoms(input) ==
    IF Len(PySplit(input)) > 1 THEN <<Join(<<" ">>, Tail(PySplit(input)))>> ELSE <<>>

\* determine_format(row): the one format found in 'Q Format' and 'Overflow
\* Format'; with none, or with two different ones (the function then returns
\* None), the cell is missing.
determine_format(q_format, overflow_format) ==
    LET results == {q_format, overflow_format} \ {NA}
    IN  IF Cardinality(results) = 1 THEN CHOOSE result \in results : TRUE ELSE NA

\* The rows of all_isbns_df that one match gives, analysed.
IsbnRows(match_dict) ==
    [n \in 1..Len(match_dict.ISBN) |->
        LET isbn_dict == match_dict.ISBN[n]
            overflow == extract_extra_atoms(isbn_dict.a)
        IN  [ISBN |-> polish_isbn(isbn_dict.a),
             Format |-> determine_format(classify_by_format(isbn_dict.q),
                                         IF overflow = <<>> THEN NA
                                         ELSE classify_by_format(overflow[1])),
             Publisher |-> match_dict.Publisher,
             Source |-> "WorldCat"]]

RECURSIVE AllIsbnRows(_)
AllIsbnRows(matches_df) ==
    IF matches_df = <<>> THEN <<>>
    ELSE IsbnRows(Head(matches_df)) \o AllIsbnRows(Tail(matches_df))

\* drop_duplicates(subset=['ISBN', 'Format']): the first row of each pair stays.
DropDuplicates(rows) ==
    SelectSeq([n \in 1..Len(rows) |-> [row |-> rows[n], n |-> n]],
              LAMBDA r : ~\E m \in 1..(r.n - 1) :
                             rows[m].ISBN = r.row.ISBN /\ rows[m].Format = r.row.Format)

\* classify_and_find_unique_manifests(matches_df): one row per ISBN and format
\* of the matches; a row without a format is dropped (dropna), and the loop
\* that would add it back never does ('in' looks the ISBN up in the index).
classify_and_find_unique_manifests(matches_df) ==
    LET unique_isbn_format_df == DropDuplicates(AllIsbnRows(matches_df))
        complete == SelectSeq(unique_isbn_format_df, LAMBDA r : r.row.Format # NA)
    IN  [n \in 1..Len(complete) |-> complete[n].row]

(***************************************************************************)
(* identify.py: identify_books, one run over the input sheet               *)
(***************************************************************************)

\* The number of known records of the input sheet.
MaxBooks == 2

Emma == <<"E", "m", "m", "a">>
Holt == <<"H", "o", "l", "t">>

\* The known records of the model: a plain one, one whose author has an
\* apostrophe, and one whose title has an apostrophe.
KnownBooks ==
    { [ID |-> <<"1">>, Title |-> Emma, Subtitle |-> <<>>,
       Author_Last |-> <<"P", "o", "e">>, Publishers |-> <<Holt>>],
      [ID |-> <<"2">>, Title |-> Emma, Subtitle |-> <<"N", "/", "A">>,
       Author_Last |-> <<"O", "'", "N", "e", "i", "l">>, Publishers |-> <<Holt>>],
      [ID |-> <<"3">>, Title |-> <<"D", "o", "n", "'", "t">>, Subtitle |-> <<>>,
       Author_Last |-> <<"P", "o", "e">>, Publishers |-> <<Holt>>] }

\* Candidates: one that passes both checks for the records titled Emma, and
\* one that passes neither.
Accepted ==
    [Title |-> <<"E", "M", "M", "A">>, Subtitle |-> <<".">>, Publisher |-> <<"H", "o", "l", "t", ",">>,
     ISBN |-> <<[a |-> <<"9", "7", "8">>, q |-> <<"h", "b", "k">>]>>]
Rejected ==
    [Title |-> <<"W", "a", "l", "d", "e", "n">>, Subtitle |-> <<>>, Publisher |-> <<"K", "n", "o", "p", "f">>,
     ISBN |-> <<[a |-> <<"9", "7", "9">>, q |-> <<"p", "b", "k">>]>>]

NumberOfRecords == [tag |-> "numberOfRecords", data |-> <<>>]
RecordData(record_dict) == [tag |-> "recordData", data |-> record_dict]

\* The behaviours of the upstream service: a body with an accepted candidate,
\* a body whose candidates are all rejected, a body without candidates, a body
\* that is not the expected document, HTTP 403, HTTP 500, and no answer.
Upstreams ==
    { Answer(200, <<NumberOfRecords, RecordData(Rejected), RecordData(Accepted)>>),
      Answer(200, <<NumberOfRecords, RecordData(Rejected)>>),
      Answer(200, <<NumberOfRecords>>),
      Answer(200, <<[tag |-> "html", data |-> <<>>]>>),
      Answer(403, <<>>),
      Answer(500, <<>>),
      NoAnswer }

\* The end of the loop body: the record goes to non_matching_books when no
\* manifestation was found for it, and its manifestations are accumulated
\* otherwise.  An exception of the lookup leaves identify_books (nothing
\* catches it): the run ends there.
Accumulate(new_book_dict, wc, seen, unique_manifests_df) ==
    /\ store' = wc.rows
    /\ IF wc.raised
       THEN batch' = [batch EXCEPT !.pc = "raised"]
       ELSE IF unique_manifests_df = <<>>
       THEN batch' = [batch EXCEPT
                !.pos = @ + 1,
                !.non_matching_books = Append(@, new_book_dict),
                !.history = Append(@, [seen |-> seen,
                                       appended_to |-> "non_matching_books",
                                       appended |-> <<new_book_dict>>])]
       ELSE batch' = [batch EXCEPT
                !.pos = @ + 1,
                !.num_books_with_matches = @ + 1,
                !.match_manifest_df = @ \o unique_manifests_df,
                !.history = Append(@, [seen |-> seen,
                                       appended_to |-> "match_manifest_df",
                                       appended |-> unique_manifests_df])]

Check(new_book_dict, wc, new_matches_df) ==
    Accumulate(new_book_dict, wc,
               [pos |-> batch.pos, empty_result |-> wc.empty_result,
                candidates |-> Len(wc.records_df), matches |-> Len(new_matches_df)],
               classify_and_find_unique_manifests(new_matches_df))

LookUp(new_book_dict, wc) ==
    Check(new_book_dict, wc, run_checks_and_return_matches(new_book_dict, wc.records_df))

\* The body of the loop for the record at batch.pos: the lookup, the checks,
\* the manifestations, and the accumulation.
ProcessRecord ==
    /\ batch.pc = "loop"
    /\ batch.pos <= Len(batch.press_books)
    /\ \E upstream \in Upstreams :
          LookUp(batch.press_books[batch.pos],
                 look_up_book_in_worldcat(store, now, batch.press_books[batch.pos], upstream))
    /\ now' = now + 1
    /\ UNCHANGED <<calls, keyVars, normVars, univVars, fmtVars, cmpVars>>

\* After the loop: the two CSV files are written when there is something to
\* write, and the summary report is logged.
EmitSummary ==
    /\ batch.pc = "loop"
    /\ batch.pos > Len(batch.press_books)
    /\ batch' = [batch EXCEPT
          !.pc = "done",
          !.matched_manifests_csv = batch.match_manifest_df,
          !.no_isbn_matches_csv = batch.non_matching_books,
          !.report = <<[total |-> Len(batch.press_books),
                        matched |-> batch.num_books_with_matches,
                        unmatched |-> Len(batch.non_matching_books)]>>]
    /\ UNCHANGED <<cacheVars, keyVars, normVars, univVars, fmtVars, cmpVars>>

\* identify_books before its loop: the sheet is loaded and the accumulators
\* are empty.  history records, for each record processed, what the lookup
\* and the checks saw and what the record added to the accumulators.
BatchInit ==
    \E press_books \in SeqsUpTo(KnownBooks, MaxBooks) :
        batch = [press_books |-> press_books, pos |-> 1, pc |-> "loop",
                 match_manifest_df |-> <<>>, non_matching_books |-> <<>>,
                 num_books_with_matches |-> 0,
                 matched_manifests_csv |-> <<>>, no_isbn_matches_csv |-> <<>>,
                 report |-> <<>>, history |-> <<>>]

InitBatch ==
    /\ CacheInit /\ KeyIdle /\ NormIdle /\ UnivIdle /\ FmtIdle /\ CmpIdle
    /\ BatchInit

NextBatch == ProcessRecord \/ EmitSummary

SpecBatch == InitBatch /\ [][NextBatch]_vars

\* C11 (as the specification states it): the batch always completes.  The records
\* are processed in input row order, no exception of the lookup, the store or
\* the parsing of one record ends the run before the following records, and a
\* finished run has processed every record and emitted the summary of counts.
C11_BatchAlwaysCompletes ==
    /\ \A n \in 1..Len(batch.history) : batch.history[n].seen.pos = n
    /\ batch.pc # "raised"
    /\ batch.pc = "done" => /\ Len(batch.history) = Len(batch.press_books)
                            /\ batch.report # <<>>

\* The lookup of a processed record returned the empty string.
NoData(h) == h.seen.empty_result

\* The lookup of a processed record gave candidates, and the checks rejected
\* every one of them.
AllRejected(h) == ~h.seen.empty_result /\ h.seen.candidates > 0 /\ h.seen.matches = 0

\* How identify_books reported a processed record: the accumulator it went to
\* (which is also the count of the summary it raised) and whatever was written
\* for it beyond the input row itself.
ReportedAs(h) ==
    [appended_to |-> h.appended_to,
     beyond_input |-> SelectSeq(h.appended,
                                LAMBDA row : row # batch.press_books[h.seen.pos])]

\* C12 (as the specification states it): a record whose lookup returned the empty
\* string is not reported in the same way as a record whose lookup succeeded
\* and whose candidates were all rejected.
C12_EmptyFetchDistinguished ==
    \A i, j \in 1..Len(batch.history) :
        NoData(batch.history[i]) /\ AllRejected(batch.history[j])
            => ReportedAs(batch.history[i]) # ReportedAs(batch.history[j])

\* The test as the specification describes it, from left_dicts[n] on: accept
\* on the full score; else compute the partial score for this reference exactly
\* when the token-count difference is < 3 and the original length of this same
\* reference is > 4, and accept on it; false when no reference accepts.
RECURSIVE GatedPerReference(_, _, _, _)
GatedPerReference(closure, right, norm_right, n) ==
    IF n > Len(closure.left_dicts) THEN FALSE
    ELSE LET left_dict == closure.left_dicts[n]
             token_diff == Abs(Len(left_dict.left_tokens) - Len(tokenize(right)))
         IN  IF ratio(left_dict.norm_left, norm_right) >= closure.thresh THEN TRUE
             ELSE IF /\ token_diff < 3
                     /\ Len(left_dict.orig_left) > 4
                     /\ partial_ratio(left_dict.norm_left, norm_right) >= closure.thresh
                  THEN TRUE
                  ELSE GatedPerReference(closure, right, norm_right, n + 1)

\* C13 (as the specification states it): the test of a comparator built from any
\* number of references returns what the per-reference gating gives: the
\* length guard of one reference never depends on another reference of the set.
C13_PerReferenceGating ==
    cmpOut # <<>> =>
        cmpOut[1].result = GatedPerReference(cmp[1], cmpRight[1], cmpOut[1].norm_right, 1)

====
